---------------------------- MODULE Spec2Model ----------------------------
(* A model of Nacha.py: fixed-width ACH records, batches and files.        *)
(* A Python str is a sequence of one-character strings; a Python int that  *)
(* may exceed 32 bits is a little-endian sequence of decimal digits.       *)
EXTENDS Integers, Sequences, FiniteSets

VARIABLES file, batches, entries, rec, err, out, calls

vars == <<file, batches, entries, rec, err, out, calls>>

-----------------------------------------------------------------------------
(* Bounds of the model *)

\* direct setValue calls made on the stand-alone record of SpecRecord
MaxSets == 2
\* length of a file's batch list
MaxBatches == 2
\* entries preloaded in batch 1 of SpecBulk: enough for the batch hash to pass 10^10
BulkBatch == 101
\* entries preloaded in batch 2 of SpecBulk: two such batches pass 10^10 at file level
BulkFile == 60

-----------------------------------------------------------------------------
(* Python strings *)

Min(a, b) == IF a < b THEN a ELSE b

Max(a, b) == IF a > b THEN a ELSE b

Digits == <<"0", "1", "2", "3", "4", "5", "6", "7", "8", "9">>

IsDigit(c) == \E i \in 1..10 : Digits[i] = c

DigitVal(c) == (CHOOSE i \in 1..10 : Digits[i] = c) - 1

Rep(c, n) == [i \in 1..n |-> c]

\* s[a:b] for 0 <= a, 0 <= b
Slice(s, a, b) == SubSeq(s, a + 1, Min(b, Len(s)))

\* string.rjust(s, width, fill)
rjust(s, width, fill) == IF Len(s) >= width THEN s ELSE Rep(fill, width - Len(s)) \o s

\* string.ljust(s, width, fill)
ljust(s, width, fill) == IF Len(s) >= width THEN s ELSE s \o Rep(fill, width - Len(s))

\* bytearray slice assignment data[start:end] = text: the slice bounds are
\* clamped to the buffer, the slice is replaced by the whole of text
SliceAssign(data, start, end, text) ==
    LET lo == Min(start, Len(data))
        hi == Max(lo, Min(end, Len(data)))
    IN SubSeq(data, 1, lo) \o text \o SubSeq(data, hi + 1, Len(data))

RECURSIVE Join(_, _)
\* sep.join(parts)
Join(sep, parts) ==
    IF parts = <<>> THEN <<>>
    ELSE IF Len(parts) = 1 THEN parts[1]
    ELSE parts[1] \o sep \o Join(sep, Tail(parts))

NACHA_EOL == <<"\r", "\n">>

-----------------------------------------------------------------------------
(* Python ints *)

RECURSIVE NatToStr(_)
\* str(n) of a small non-negative int
NatToStr(n) == IF n < 10 THEN <<Digits[n + 1]>> ELSE NatToStr(n \div 10) \o <<Digits[(n % 10) + 1]>>

Reverse(s) == [i \in 1..Len(s) |-> s[Len(s) + 1 - i]]

RECURSIVE BigNorm(_)
\* drop the high zero digits
BigNorm(x) == IF x # <<>> /\ x[Len(x)] = 0 THEN BigNorm(SubSeq(x, 1, Len(x) - 1)) ELSE x

RECURSIVE BigAddC(_, _, _)
BigAddC(a, b, carry) ==
    IF a = <<>> /\ b = <<>> THEN (IF carry = 0 THEN <<>> ELSE <<carry>>)
    ELSE LET da == IF a = <<>> THEN 0 ELSE Head(a)
             db == IF b = <<>> THEN 0 ELSE Head(b)
             t  == da + db + carry
         IN <<t % 10>> \o BigAddC(IF a = <<>> THEN a ELSE Tail(a),
                                  IF b = <<>> THEN b ELSE Tail(b), t \div 10)

\* a + b
BigAdd(a, b) == BigAddC(a, b, 0)

\* a % 10^k
BigModPow10(a, k) == BigNorm(SubSeq(a, 1, Min(k, Len(a))))

\* str(a)
BigToStr(a) == IF a = <<>> THEN <<"0">> ELSE [i \in 1..Len(a) |-> Digits[a[Len(a) + 1 - i] + 1]]

RECURSIVE BigToNat(_)
\* the value of a, for values that fit a machine word of the checker
BigToNat(a) == IF a = <<>> THEN 0 ELSE Head(a) + 10 * BigToNat(Tail(a))

RECURSIVE BigOfNat(_)
BigOfNat(n) == IF n = 0 THEN <<>> ELSE <<n % 10>> \o BigOfNat(n \div 10)

RECURSIVE LStrip(_)
LStrip(s) == IF s # <<>> /\ Head(s) = " " THEN LStrip(Tail(s)) ELSE s

\* s.strip()
Strip(s) == Reverse(LStrip(Reverse(LStrip(s))))

\* int(s): surrounding blanks are ignored, then every character must be a
\* digit and there must be one; otherwise ValueError
ParseInt(s) ==
    LET t == Strip(s)
    IN IF t = <<>> \/ \E i \in 1..Len(t) : ~IsDigit(t[i])
       THEN [ok |-> FALSE, n |-> <<>>]
       ELSE [ok |-> TRUE, n |-> BigNorm([i \in 1..Len(t) |-> DigitVal(t[Len(t) + 1 - i])])]

\* the values handed to setValue: a str or an int
PStr(s) == [t |-> "str", s |-> s]

PInt(n) == [t |-> "int", n |-> n]

\* str(value)
PyStr(value) == IF value.t = "int" THEN BigToStr(value.n) ELSE value.s

-----------------------------------------------------------------------------
(* NachaField and the five record layouts *)

NachaField(start, end, type) == [start |-> start - 1, end |-> end, type |-> type]

PADDING_FUNCTION(type, s, width, fill) ==
    IF type = "ALPHAMERIC" THEN ljust(s, width, fill) ELSE rjust(s, width, fill)

PADDING_CHAR(type) == IF type = "NUMERIC" THEN "0" ELSE " "

NachaFileHeaderFields ==
    [recordType      |-> NachaField(1, 1, "NONE"),
     priorityCode    |-> NachaField(2, 3, "NUMERIC"),
     destination     |-> NachaField(4, 13, "ROUTING"),
     origin          |-> NachaField(14, 23, "ROUTING"),
     creationDate    |-> NachaField(24, 29, "NONE"),
     creationTime    |-> NachaField(30, 33, "NONE"),
     fileIdModifier  |-> NachaField(34, 34, "NONE"),
     recordSize      |-> NachaField(35, 37, "NONE"),
     blockingFactor  |-> NachaField(38, 39, "NONE"),
     formatCode      |-> NachaField(40, 40, "NONE"),
     destinationName |-> NachaField(41, 63, "ALPHAMERIC"),
     originName      |-> NachaField(64, 86, "ALPHAMERIC"),
     refCode         |-> NachaField(87, 94, "ALPHAMERIC")]

NachaFileControlFields ==
    [recordType   |-> NachaField(1, 1, "NONE"),
     batchCount   |-> NachaField(2, 7, "NUMERIC"),
     blockCount   |-> NachaField(8, 13, "NUMERIC"),
     entryCount   |-> NachaField(14, 21, "NUMERIC"),
     entryHash    |-> NachaField(22, 31, "NUMERIC"),
     debitAmount  |-> NachaField(32, 43, "NUMERIC"),
     creditAmount |-> NachaField(44, 55, "NUMERIC"),
     reserved     |-> NachaField(56, 94, "NONE")]

NachaBatchHeaderFields ==
    [recordType       |-> NachaField(1, 1, "NONE"),
     serviceCode      |-> NachaField(2, 4, "NUMERIC"),
     companyName      |-> NachaField(5, 20, "ALPHAMERIC"),
     companyData      |-> NachaField(21, 40, "ALPHAMERIC"),
     companyId        |-> NachaField(41, 50, "ALPHAMERIC"),
     entryClassCode   |-> NachaField(51, 53, "ALPHAMERIC"),
     entryDescription |-> NachaField(54, 63, "ALPHAMERIC"),
     descriptiveDate  |-> NachaField(64, 69, "ALPHAMERIC"),
     entryDate        |-> NachaField(70, 75, "NONE"),
     settlementDate   |-> NachaField(76, 78, "NUMERIC"),
     originatorCode   |-> NachaField(79, 79, "NONE"),
     odfiId           |-> NachaField(80, 87, "ALPHAMERIC"),
     batchNumber      |-> NachaField(88, 94, "NUMERIC")]

NachaBatchControlFields ==
    [recordType   |-> NachaField(1, 1, "NONE"),
     serviceCode  |-> NachaField(2, 4, "NUMERIC"),
     entryCount   |-> NachaField(5, 10, "NUMERIC"),
     entryHash    |-> NachaField(11, 20, "NUMERIC"),
     debitAmount  |-> NachaField(21, 32, "NUMERIC"),
     creditAmount |-> NachaField(33, 44, "NUMERIC"),
     companyId    |-> NachaField(45, 54, "ALPHAMERIC"),
     authCode     |-> NachaField(55, 73, "ALPHAMERIC"),
     reserved     |-> NachaField(74, 79, "NONE"),
     odfiId       |-> NachaField(80, 87, "NONE"),
     batchNumber  |-> NachaField(88, 94, "NUMERIC")]

NachaEntryFields ==
    [recordType       |-> NachaField(1, 1, "NONE"),
     transactionCode  |-> NachaField(2, 3, "NUMERIC"),
     rdfiId           |-> NachaField(4, 11, "NONE"),
     checkDigit       |-> NachaField(12, 12, "NUMERIC"),
     dfiAccountNumber |-> NachaField(13, 29, "ALPHAMERIC"),
     amount           |-> NachaField(30, 39, "NUMERIC"),
     idNumber         |-> NachaField(40, 54, "ALPHAMERIC"),
     name             |-> NachaField(55, 76, "ALPHAMERIC"),
     data             |-> NachaField(77, 78, "ALPHAMERIC"),
     addenda          |-> NachaField(79, 79, "NUMERIC"),
     traceNumber      |-> NachaField(80, 94, "NUMERIC"),
     odfiId           |-> NachaField(80, 88, "NONE"),
     sequenceNumber   |-> NachaField(88, 94, "NUMERIC")]

Kinds == {"FileHeader", "FileControl", "BatchHeader", "BatchControl", "Entry"}

\* self.fields of a record of the given class
FieldsOf(kind) ==
    CASE kind = "FileHeader"   -> NachaFileHeaderFields
      [] kind = "FileControl"  -> NachaFileControlFields
      [] kind = "BatchHeader"  -> NachaBatchHeaderFields
      [] kind = "BatchControl" -> NachaBatchControlFields
      [] kind = "Entry"        -> NachaEntryFields

RecordWidth == 94

\* NachaRecord.__init__: unlocked, 94 blanks
NachaRecord(kind) == [kind |-> kind, locked |-> FALSE, data |-> Rep(" ", RecordWidth)]


-----------------------------------------------------------------------------
(* NachaRecord: every operation returns the record after the call and the  *)
(* exception it ended in ("ok" when it returned)                           *)

\* NachaRecord.lock
lock(r) == [r EXCEPT !.locked = TRUE]

\* NachaRecord.getValue, for a field of the layout
getValue(r, fieldName) ==
    LET Read(field) == Slice(r.data, field.start, field.end)
    IN Read(FieldsOf(r.kind)[fieldName])

\* NachaRecord.getValue: the exception it ends in
getValueErr(r, fieldName) ==
    IF fieldName \in DOMAIN FieldsOf(r.kind) THEN "ok" ELSE "UnknownField"

\* Faulty variant of NachaRecord.setValue: the locked flag is not looked at
Record_setValueUnlocked(r, fieldName, value) ==
    LET Padded(type, text, width) ==
            IF type # "NONE"
            THEN PADDING_FUNCTION(type, text, width, PADDING_CHAR(type))
            ELSE text
        Write(field) ==
            [rec |-> [r EXCEPT !.data =
                         SliceAssign(@, field.start, field.end,
                                     Slice(Padded(field.type, PyStr(value),
                                                  field.end - field.start),
                                           0, field.end - field.start))],
             err |-> "ok"]
        Lookup(fields) ==
            IF fieldName \in DOMAIN fields THEN Write(fields[fieldName])
            ELSE [rec |-> r, err |-> "UnknownField"]
    IN Lookup(FieldsOf(r.kind))

\* NachaRecord.setValue
Record_setValue(r, fieldName, value) ==
    LET Padded(type, text, width) ==
            IF type # "NONE"
            THEN PADDING_FUNCTION(type, text, width, PADDING_CHAR(type))
            ELSE text
        Write(field) ==
            [rec |-> [r EXCEPT !.data =
                         SliceAssign(@, field.start, field.end,
                                     Slice(Padded(field.type, PyStr(value),
                                                  field.end - field.start),
                                           0, field.end - field.start))],
             err |-> "ok"]
        Lookup(fields) ==
            IF fieldName \in DOMAIN fields THEN Write(fields[fieldName])
            ELSE [rec |-> r, err |-> "UnknownField"]
    IN IF r.locked THEN [rec |-> r, err |-> "RecordLocked"]
       ELSE Lookup(FieldsOf(r.kind))

CHECK_DIGIT_WEIGHTS == <<3, 7, 1, 3, 7, 1, 3, 7>>

RECURSIVE SumTo(_, _)
SumTo(f, n) == IF n = 0 THEN 0 ELSE f[n] + SumTo(f, n - 1)

\* NachaEntry.calculateCheckDigit: int(char) of a character that is no digit
\* raises ValueError; zip stops at the shorter of weights and characters
calculateCheckDigit(r) ==
    LET Digit(total) == (total + (10 - (total % 10))) - total
        Of(rdfiId) ==
            IF \E i \in 1..Len(rdfiId) : ~IsDigit(rdfiId[i])
            THEN [ok |-> FALSE, n |-> 0]
            ELSE [ok |-> TRUE,
                  n |-> Digit(SumTo([i \in 1..Min(Len(CHECK_DIGIT_WEIGHTS), Len(rdfiId))
                                        |-> CHECK_DIGIT_WEIGHTS[i] * DigitVal(rdfiId[i])],
                                    Min(Len(CHECK_DIGIT_WEIGHTS), Len(rdfiId))))]
    IN Of(getValue(r, "rdfiId"))

\* NachaEntry.setValue
Entry_setValue(r, fieldName, value) ==
    LET WriteDigit(written, digit) ==
            IF ~digit.ok THEN [rec |-> written, err |-> "ValueError"]
            ELSE Record_setValue(written, "checkDigit", PInt(BigOfNat(digit.n)))
        Then(first) ==
            IF first.err # "ok" \/ fieldName # "rdfiId" THEN first
            ELSE WriteDigit(first.rec, calculateCheckDigit(first.rec))
    IN Then(Record_setValue(r, fieldName, value))

\* record.setValue, dispatched on the record's class
setValue(r, fieldName, value) ==
    IF r.kind = "Entry" THEN Entry_setValue(r, fieldName, value)
    ELSE Record_setValue(r, fieldName, value)

RECURSIVE SetAll(_, _)
\* a chain of setValue calls on one record: the first exception ends it
SetAll(r, writes) ==
    LET Then(one) == IF one.err # "ok" THEN one ELSE SetAll(one.rec, Tail(writes))
    IN IF writes = <<>> THEN [rec |-> r, err |-> "ok"]
       ELSE Then(setValue(r, writes[1][1], writes[1][2]))

-----------------------------------------------------------------------------
(* Constructor inputs *)

\* datetime.today(), formatted as the constructors do
TodayDate == <<"2", "6", "1", "1", "0", "2">>

TodayTime == <<"0", "9", "3", "0">>

TodayMonth == <<"N", "o", "v", " ", "2", "6">>

\* the effective date after the weekend rule, formatted %y%m%d
EntryDate == <<"2", "6", "1", "1", "0", "3">>

RefCode == <<"C", "4", " ", "T", "E", "C", "H">>

MIXED_SERVICE == <<"2", "0", "0">>

CREDITS_ONLY_SERVICE == <<"2", "2", "0">>

DEBITS_ONLY_SERVICE == <<"2", "2", "5">>

ADVICES_SERVICE == <<"2", "8", "0">>

PPD_ENTRY == <<"P", "P", "D">>

CHECKING_CREDIT == <<"2", "2">>

\* NachaFileHeader.__init__
NachaFileHeader(fileIdModifier) ==
    SetAll(NachaRecord("FileHeader"),
           << <<"recordType", PStr(<<"1">>)>>,
              <<"priorityCode", PStr(<<"0", "1">>)>>,
              <<"creationDate", PStr(TodayDate)>>,
              <<"creationTime", PStr(TodayTime)>>,
              <<"recordSize", PStr(<<"0", "9", "4">>)>>,
              <<"blockingFactor", PStr(<<"1", "0">>)>>,
              <<"formatCode", PStr(<<"1">>)>>,
              <<"refCode", PStr(RefCode)>>,
              <<"fileIdModifier", fileIdModifier>> >>)

\* NachaFileControl.__init__
NachaFileControl == SetAll(NachaRecord("FileControl"), << <<"recordType", PStr(<<"9">>)>> >>)

\* NachaBatchHeader.__init__
NachaBatchHeader == SetAll(NachaRecord("BatchHeader"), << <<"recordType", PStr(<<"5">>)>> >>)

\* NachaBatchControl.__init__
NachaBatchControl == SetAll(NachaRecord("BatchControl"), << <<"recordType", PStr(<<"8">>)>> >>)

\* NachaEntry.__init__
NachaEntry(transCode, rdfiId, dfiActNum, amount, id, name) ==
    SetAll(NachaRecord("Entry"),
           << <<"recordType", PStr(<<"6">>)>>,
              <<"addenda", PStr(<<"0">>)>>,
              <<"transactionCode", transCode>>,
              <<"rdfiId", rdfiId>>,
              <<"dfiAccountNumber", dfiActNum>>,
              <<"amount", amount>>,
              <<"idNumber", id>>,
              <<"name", name>> >>)


-----------------------------------------------------------------------------
(* NachaBatch: a batch is its two records, the ids of its entries and its  *)
(* finalized flag; the entries themselves live in the heap `entries`       *)

\* NachaBatch.setDualField
setDualField(b, fieldName, value) ==
    LET Control(h, c) ==
            [batch |-> [b EXCEPT !.batchHeader = h.rec, !.batchControl = c.rec],
             err |-> c.err]
        Header(h) ==
            IF h.err # "ok" THEN [batch |-> b, err |-> h.err]
            ELSE Control(h, Record_setValue(b.batchControl, fieldName, value))
    IN Header(Record_setValue(b.batchHeader, fieldName, value))

\* NachaBatch.__init__
NachaBatch(serviceCode, classCode, companyName, description, companyId, odfiId) ==
    LET Odfi(b3) == IF b3.err # "ok" THEN b3 ELSE setDualField(b3.batch, "odfiId", odfiId)
        Company(b, h) ==
            IF h.err # "ok" THEN [batch |-> b, err |-> h.err]
            ELSE Odfi(setDualField([b EXCEPT !.batchHeader = h.rec], "companyId", companyId))
        Header(b1) ==
            IF b1.err # "ok" THEN b1
            ELSE Company(b1.batch,
                         SetAll(b1.batch.batchHeader,
                                << <<"entryClassCode", classCode>>,
                                   <<"companyName", companyName>>,
                                   <<"entryDescription", description>>,
                                   <<"descriptiveDate", PStr(TodayMonth)>>,
                                   <<"entryDate", PStr(EntryDate)>> >>))
    IN Header(setDualField([finalized |-> FALSE, entries |-> <<>>,
                            batchHeader |-> NachaBatchHeader.rec,
                            batchControl |-> NachaBatchControl.rec],
                           "serviceCode", serviceCode))

\* Faulty variant of NachaBatch.addEntry: the finalized flag is not looked at
Batch_addEntryUnchecked(b, e, id) ==
    LET Append_(seq) ==
            IF seq.err # "ok" THEN [batch |-> b, entry |-> seq.rec, err |-> seq.err]
            ELSE [batch |-> [b EXCEPT !.entries = Append(@, id)],
                  entry |-> lock(seq.rec), err |-> "ok"]
        Sequence(odfi) ==
            IF odfi.err # "ok" THEN [batch |-> b, entry |-> odfi.rec, err |-> odfi.err]
            ELSE Append_(Entry_setValue(odfi.rec, "sequenceNumber",
                                        PInt(BigOfNat(Len(b.entries) + 1))))
    IN Sequence(Entry_setValue(e, "odfiId", PStr(getValue(b.batchHeader, "odfiId"))))

\* NachaBatch.addEntry on batch b with the entry record e, whose id is id:
\* the batch and the entry after the call, and the exception
Batch_addEntry(b, e, id) ==
    LET Append_(seq) ==
            IF seq.err # "ok" THEN [batch |-> b, entry |-> seq.rec, err |-> seq.err]
            ELSE [batch |-> [b EXCEPT !.entries = Append(@, id)],
                  entry |-> lock(seq.rec), err |-> "ok"]
        Sequence(odfi) ==
            IF odfi.err # "ok" THEN [batch |-> b, entry |-> odfi.rec, err |-> odfi.err]
            ELSE Append_(Entry_setValue(odfi.rec, "sequenceNumber",
                                        PInt(BigOfNat(Len(b.entries) + 1))))
    IN IF b.finalized THEN [batch |-> b, entry |-> e, err |-> "BatchFinalized"]
       ELSE Sequence(Entry_setValue(e, "odfiId", PStr(getValue(b.batchHeader, "odfiId"))))

\* serviceCode in (DEBITS_ONLY_SERVICE, MIXED_SERVICE)
IsDebitService(serviceCode) == serviceCode \in {DEBITS_ONLY_SERVICE, MIXED_SERVICE}

\* serviceCode in (CREDITS_ONLY_SERVICE, MIXED_SERVICE)
IsCreditService(serviceCode) == serviceCode \in {CREDITS_ONLY_SERVICE, MIXED_SERVICE}

HashDigits == 10

\* Faulty variant of the hash reduction: the sum is kept whole
HashModNone(entryHash) == entryHash

\* entryHash % 10000000000
HashMod(entryHash) == BigModPow10(entryHash, HashDigits)

RECURSIVE BigSum(_, _, _)
\* f[lo] + ... + f[hi], added up by halves (the sum a loop over lo..hi
\* accumulates; the recursion stays shallow for a long list)
BigSum(f, lo, hi) ==
    IF lo > hi THEN <<>>
    ELSE IF lo = hi THEN f[lo]
    ELSE BigAdd(BigSum(f, lo, (lo + hi) \div 2), BigSum(f, ((lo + hi) \div 2) + 1, hi))

\* the loop of NachaBatch.finalize over the entry ids es: a value that int()
\* refuses ends it in ValueError, otherwise the three sums
BatchTotals(es, heap, serviceCode) ==
    LET Sums(rdfi, amount, debit, credit) ==
            IF \E i \in 1..Len(es) : ~rdfi[i].ok \/ ((debit \/ credit) /\ ~amount[i].ok)
            THEN [ok |-> FALSE, entryHash |-> <<>>, debitAmount |-> <<>>,
                  creditAmount |-> <<>>]
            ELSE [ok |-> TRUE,
                  entryHash |-> BigSum([i \in 1..Len(es) |-> rdfi[i].n], 1, Len(es)),
                  debitAmount |-> IF debit
                                  THEN BigSum([i \in 1..Len(es) |-> amount[i].n], 1, Len(es))
                                  ELSE <<>>,
                  creditAmount |-> IF credit
                                   THEN BigSum([i \in 1..Len(es) |-> amount[i].n], 1, Len(es))
                                   ELSE <<>>]
    IN Sums([i \in 1..Len(es) |-> ParseInt(getValue(heap[es[i]], "rdfiId"))],
            [i \in 1..Len(es) |-> ParseInt(getValue(heap[es[i]], "amount"))],
            IsDebitService(serviceCode), IsCreditService(serviceCode))

\* NachaBatch.finalize(batchNumber), the entries read from heap
Batch_finalize(b, heap, batchNumber) ==
    LET Lock_(b2, tot) ==
            IF tot.err # "ok"
            THEN [batch |-> [b2 EXCEPT !.batchControl = tot.rec], err |-> tot.err]
            ELSE [batch |-> [b2 EXCEPT !.batchControl = lock(tot.rec),
                                       !.batchHeader = lock(@),
                                       !.finalized = TRUE],
                  err |-> "ok"]
        Write(b2, t) ==
            IF ~t.ok THEN [batch |-> b2, err |-> "ValueError"]
            ELSE Lock_(b2, SetAll(b2.batchControl,
                                  << <<"entryHash", PInt(HashMod(t.entryHash))>>,
                                     <<"creditAmount", PInt(t.creditAmount)>>,
                                     <<"debitAmount", PInt(t.debitAmount)>> >>))
        Totals(b1, cnt) ==
            IF cnt.err # "ok" THEN [batch |-> b1, err |-> cnt.err]
            ELSE Write([b1 EXCEPT !.batchControl = cnt.rec],
                       BatchTotals(b1.entries, heap,
                                   getValue(b1.batchHeader, "serviceCode")))
        Count(num) ==
            IF num.err # "ok" THEN num
            ELSE Totals(num.batch,
                        Record_setValue(num.batch.batchControl, "entryCount",
                                        PInt(BigOfNat(Len(b.entries)))))
    IN IF b.finalized THEN [batch |-> b, err |-> "ok"]
       ELSE Count(setDualField(b, "batchNumber", PInt(BigOfNat(batchNumber))))

\* NachaRecord.toString
Record_toString(r) == r.data

\* NachaBatch.toString
Batch_toString(b, heap) ==
    Join(NACHA_EOL,
         <<b.batchHeader.data,
           Join(NACHA_EOL, [i \in 1..Len(b.entries) |-> Record_toString(heap[b.entries[i]])]),
           b.batchControl.data>>)

-----------------------------------------------------------------------------
(* NachaFile: its two records, the ids of its batches, the finalized flag  *)
(* and the filler text; the batches live in the heap `batches`             *)

\* NachaFile.__init__
NachaFile(modifier, destination, destinationName, origin, originName) ==
    [finalized |-> FALSE, batches |-> <<>>, nineFill |-> <<>>,
     fileHeader |-> SetAll(NachaFileHeader(modifier).rec,
                           << <<"destination", destination>>,
                              <<"origin", origin>>,
                              <<"destinationName", destinationName>>,
                              <<"originName", originName>> >>).rec,
     fileControl |-> NachaFileControl.rec]

\* NachaFile.addBatch of the batch b, whose id is id: the file and the
\* batch after the call, and the exception
File_addBatch(f, b, id, heap) ==
    LET Append_(fin) ==
            IF fin.err # "ok" THEN [file |-> f, batch |-> fin.batch, err |-> fin.err]
            ELSE [file |-> [f EXCEPT !.batches = Append(@, id)],
                  batch |-> fin.batch, err |-> "ok"]
    IN IF f.finalized THEN [file |-> f, batch |-> b, err |-> "FileFinalized"]
       ELSE Append_(Batch_finalize(b, heap, Len(f.batches) + 1))

\* the loop of NachaFile.finalize over the batch ids bs: a value that int()
\* refuses ends it in ValueError, otherwise the four sums
FileTotals(bs, heap) ==
    LET Sums(count, hash, debit, credit) ==
            IF \E i \in 1..Len(bs) : ~(count[i].ok /\ hash[i].ok /\ debit[i].ok /\ credit[i].ok)
            THEN [ok |-> FALSE, entryCount |-> <<>>, entryHash |-> <<>>,
                  debitAmount |-> <<>>, creditAmount |-> <<>>]
            ELSE [ok |-> TRUE,
                  entryCount |-> BigSum([i \in 1..Len(bs) |-> count[i].n], 1, Len(bs)),
                  entryHash |-> BigSum([i \in 1..Len(bs) |-> hash[i].n], 1, Len(bs)),
                  debitAmount |-> BigSum([i \in 1..Len(bs) |-> debit[i].n], 1, Len(bs)),
                  creditAmount |-> BigSum([i \in 1..Len(bs) |-> credit[i].n], 1, Len(bs))]
    IN Sums([i \in 1..Len(bs) |-> ParseInt(getValue(heap[bs[i]].batchControl, "entryCount"))],
            [i \in 1..Len(bs) |-> ParseInt(getValue(heap[bs[i]].batchControl, "entryHash"))],
            [i \in 1..Len(bs) |-> ParseInt(getValue(heap[bs[i]].batchControl, "debitAmount"))],
            [i \in 1..Len(bs) |-> ParseInt(getValue(heap[bs[i]].batchControl, "creditAmount"))])

\* Faulty variant of the block count: the remainder is forgotten
BlockCountFloor(recordCount, blockingFactor) == recordCount \div blockingFactor

\* blockCount = floor(recordCount / blockingFactor), one more when a
\* remainder is left
BlockCount(recordCount, blockingFactor) ==
    IF recordCount % blockingFactor # 0
    THEN (recordCount \div blockingFactor) + 1
    ELSE recordCount \div blockingFactor

\* NACHA_EOL.join(["9" * 94] * (blockingFactor - blockMod)), or the filler
\* as it was when no remainder is left
NineFill(old, recordCount, blockingFactor) ==
    IF recordCount % blockingFactor # 0
    THEN Join(NACHA_EOL, [i \in 1..(blockingFactor - (recordCount % blockingFactor))
                              |-> Rep("9", RecordWidth)])
    ELSE old

\* NachaFile.finalize, the batches read from heap
File_finalize(f, heap) ==
    LET Lock_(f2, blk) ==
            IF blk.err # "ok" THEN [file |-> [f2 EXCEPT !.fileControl = blk.rec], err |-> blk.err]
            ELSE [file |-> [f2 EXCEPT !.fileControl = lock(blk.rec),
                                      !.fileHeader = lock(@),
                                      !.finalized = TRUE],
                  err |-> "ok"]
        Block(c, recordCount, blockingFactor) ==
            IF blockingFactor = 0
            THEN [file |-> [f EXCEPT !.fileControl = c], err |-> "ZeroDivisionError"]
            ELSE Lock_([f EXCEPT !.nineFill = NineFill(@, recordCount, blockingFactor)],
                       Record_setValue(c, "blockCount",
                                       PInt(BigOfNat(BlockCount(recordCount, blockingFactor)))))
        Factor(tot, t, bf) ==
            IF tot.err # "ok" THEN [file |-> [f EXCEPT !.fileControl = tot.rec], err |-> tot.err]
            ELSE IF ~bf.ok THEN [file |-> [f EXCEPT !.fileControl = tot.rec],
                                 err |-> "ValueError"]
            ELSE Block(tot.rec, 2 + (Len(f.batches) * 2) + BigToNat(t.entryCount),
                       BigToNat(bf.n))
        Write(c, t) ==
            IF ~t.ok THEN [file |-> [f EXCEPT !.fileControl = c], err |-> "ValueError"]
            ELSE Factor(SetAll(c, << <<"entryCount", PInt(t.entryCount)>>,
                                     <<"entryHash", PInt(HashMod(t.entryHash))>>,
                                     <<"debitAmount", PInt(t.debitAmount)>>,
                                     <<"creditAmount", PInt(t.creditAmount)>> >>),
                        t, ParseInt(getValue(f.fileHeader, "blockingFactor")))
        Totals(bc) ==
            IF bc.err # "ok" THEN [file |-> f, err |-> bc.err]
            ELSE Write(bc.rec,
                       FileTotals(f.batches, heap))
    IN IF f.finalized THEN [file |-> f, err |-> "ok"]
       ELSE Totals(Record_setValue(f.fileControl, "batchCount",
                                   PInt(BigOfNat(Len(f.batches)))))

\* NachaFile.toString
File_toString(f, bheap, eheap) ==
    Join(NACHA_EOL,
         <<f.fileHeader.data,
           Join(NACHA_EOL, [i \in 1..Len(f.batches) |-> Batch_toString(bheap[f.batches[i]], eheap)]),
           f.fileControl.data,
           f.nineFill>>)

\* Faulty variant of NachaFile.writeToFile: the finalized flag is not looked at
File_writeToFileUnchecked(f, bheap, eheap) ==
    [text |-> File_toString(f, bheap, eheap), err |-> "ok"]

\* NachaFile.writeToFile: the text written, or the exception
File_writeToFile(f, bheap, eheap) ==
    IF f.finalized THEN [text |-> File_toString(f, bheap, eheap), err |-> "ok"]
    ELSE [text |-> <<>>, err |-> "NotFinalized"]

-----------------------------------------------------------------------------
(* The callers' inputs *)

Routing1 == <<"0", "7", "6", "4", "0", "1", "2", "5">>

\* weighted digit sum 10: a multiple of ten
Routing2 == <<"1", "0", "0", "0", "0", "0", "0", "1">>

Routing3 == <<"9", "9", "9", "9", "9", "9", "9", "9">>

OdfiId == <<"0", "9", "1", "0", "0", "0", "0", "1">>

Destination == <<"0", "9", "1", "0", "0", "0", "0", "1", "9">>

Origin == <<"1", "2", "3", "4", "5", "6", "7", "8", "9", "0">>

BankName == <<"B", "A", "N", "K">>

CompanyName == <<"A", "C", "M", "E">>

CompanyId == <<"1", "1", "2", "3", "4", "5", "6", "7", "8", "9">>

Account == <<"4", "4", "5", "5", "6", "6">>

\* an amount int() refuses
BadAmount == <<"1", "X">>

\* longer than every field
LongText == Rep("Z", 40)

\* the values SpecRecord hands to setValue: empty (shorter than every field),
\* two routing numbers, and a text longer than every field
SetValues == {PStr(<<>>), PStr(Routing1), PStr(Routing2), PStr(LongText)}

\* the field names SpecRecord hands to setValue on a record of the kind
SetFields(kind) == DOMAIN FieldsOf(kind) \cup {"noSuchField"}

BatchIds == {1, 2}

EntryIds == {1, 2}

\* batch numbers a caller passes to NachaBatch.finalize itself
DirectBatchNumbers == {7}

NewFile == NachaFile(PStr(<<"A">>), PStr(Destination), PStr(BankName), PStr(Origin),
                     PStr(CompanyName))

NewBatch(serviceCode) ==
    NachaBatch(PStr(serviceCode), PStr(PPD_ENTRY), PStr(CompanyName), PStr(<<"P", "A", "Y">>),
               PStr(CompanyId), PStr(OdfiId)).batch

NewEntry(rdfiId, amount) ==
    NachaEntry(PStr(CHECKING_CREDIT), PStr(rdfiId), PStr(Account), amount,
               PStr(<<"I", "D", "1">>), PStr(<<"J", "O", "E">>)).rec

\* no text returned or written by the last call
NoOut == <<>>

-----------------------------------------------------------------------------
(* Spec: one file, two batches and two entries, driven through the         *)
(* public operations of NachaFile and NachaBatch                           *)

Init ==
    /\ file = NewFile
    /\ \E s \in {<<CREDITS_ONLY_SERVICE, DEBITS_ONLY_SERVICE>>, <<MIXED_SERVICE, ADVICES_SERVICE>>} :
          batches = [b \in BatchIds |-> NewBatch(s[b])]
    /\ \E a2 \in {PStr(<<"2", "5", "0">>), PStr(BadAmount)} :
          entries = [e \in EntryIds |->
                        NewEntry(IF e = 1 THEN Routing1 ELSE Routing2,
                                 IF e = 1 THEN PInt(BigOfNat(10000)) ELSE a2)]
    /\ rec = <<>>
    /\ err = "ok"
    /\ out = NoOut
    /\ calls = 0

\* batches[b].addEntry(entries[e])
AddEntry(b, e) ==
    LET r == Batch_addEntry(batches[b], entries[e], e)
    IN /\ batches' = [batches EXCEPT ![b] = r.batch]
       /\ entries' = [entries EXCEPT ![e] = r.entry]
       /\ err' = r.err
       /\ out' = NoOut
       /\ UNCHANGED <<file, rec, calls>>

\* file.addBatch(batches[b])
AddBatch(b) ==
    /\ Len(file.batches) < MaxBatches
    /\ LET r == File_addBatch(file, batches[b], b, entries)
       IN /\ file' = r.file
          /\ batches' = [batches EXCEPT ![b] = r.batch]
          /\ err' = r.err
    /\ out' = NoOut
    /\ UNCHANGED <<entries, rec, calls>>

\* batches[b].finalize(n), called by the caller itself
BatchFinalize(b, n) ==
    LET r == Batch_finalize(batches[b], entries, n)
    IN /\ batches' = [batches EXCEPT ![b] = r.batch]
       /\ err' = r.err
       /\ out' = NoOut
       /\ UNCHANGED <<file, entries, rec, calls>>

\* file.finalize()
Finalize ==
    LET r == File_finalize(file, batches)
    IN /\ file' = r.file
       /\ err' = r.err
       /\ out' = NoOut
       /\ UNCHANGED <<batches, entries, rec, calls>>

\* file.toString()
ToStringCall ==
    /\ out' = File_toString(file, batches, entries)
    /\ err' = "ok"
    /\ UNCHANGED <<file, batches, entries, rec, calls>>

\* file.writeToFile(fileName)
WriteToFile ==
    LET r == File_writeToFile(file, batches, entries)
    IN /\ out' = r.text
       /\ err' = r.err
       /\ UNCHANGED <<file, batches, entries, rec, calls>>

Next ==
    \/ \E b \in BatchIds, e \in EntryIds : AddEntry(b, e)
    \/ \E b \in BatchIds : AddBatch(b)
    \/ \E b \in BatchIds, n \in DirectBatchNumbers : BatchFinalize(b, n)
    \/ Finalize
    \/ ToStringCall
    \/ WriteToFile

Spec == Init /\ [][Next]_vars

-----------------------------------------------------------------------------
(* SpecRecord: one record of any of the five classes, driven through       *)
(* setValue and lock                                                       *)

InitRecord ==
    /\ rec \in {NachaFileHeader(PStr(<<"A">>)).rec, NachaFileControl.rec,
                NachaBatchHeader.rec, NachaBatchControl.rec,
                NewEntry(Routing1, PInt(BigOfNat(10000)))}
    /\ file = <<>>
    /\ batches = <<>>
    /\ entries = <<>>
    /\ err = "ok"
    /\ out = NoOut
    /\ calls = 0

\* rec.setValue(fieldName, value)
SetValue(fieldName, value) ==
    /\ calls < MaxSets
    /\ LET r == setValue(rec, fieldName, value)
       IN /\ rec' = r.rec
          /\ err' = r.err
    /\ calls' = calls + 1
    /\ UNCHANGED <<file, batches, entries, out>>

\* rec.lock()
Lock ==
    /\ rec' = lock(rec)
    /\ err' = "ok"
    /\ UNCHANGED <<file, batches, entries, out, calls>>

NextRecord ==
    \/ \E f \in SetFields(rec.kind), v \in SetValues : SetValue(f, v)
    \/ Lock

SpecRecord == InitRecord /\ [][NextRecord]_vars


-----------------------------------------------------------------------------
(* SpecBulk: batch 1 already holds BulkBatch entries and batch 2 BulkFile  *)
(* entries, all of the largest amount to the largest routing number, so    *)
(* that the entry hashes pass 10^10 and the amounts 10^12; one more entry  *)
(* is still to be added                                                    *)

\* the largest amount the ten characters of an entry's amount field hold
MaxAmount == Rep("9", NachaEntryFields.amount.end - NachaEntryFields.amount.start)

\* the batch b after addEntry of the n entries first, first + 1, ...
Preloaded(b, first, n) == [b EXCEPT !.entries = [i \in 1..n |-> first + i - 1]]

\* the entry e as the i-th addEntry of such a batch leaves it
PreloadedEntry(b, first, i, e) ==
    Batch_addEntry(Preloaded(b, first, i - 1), e, first + i - 1).entry

BulkSpare == BulkBatch + BulkFile + 1

InitBulk ==
    /\ file = NewFile
    /\ LET Make(b1, b2, e, spare) ==
               /\ batches = [b \in BatchIds |->
                                IF b = 1 THEN Preloaded(b1, 1, BulkBatch)
                                ELSE Preloaded(b2, BulkBatch + 1, BulkFile)]
               /\ entries = [i \in 1..BulkSpare |->
                                IF i = BulkSpare THEN spare
                                ELSE PreloadedEntry(IF i <= BulkBatch THEN b1 ELSE b2,
                                                    IF i <= BulkBatch THEN 1 ELSE BulkBatch + 1,
                                                    IF i <= BulkBatch THEN i ELSE i - BulkBatch,
                                                    e)]
       IN Make(NewBatch(CREDITS_ONLY_SERVICE), NewBatch(MIXED_SERVICE),
               NewEntry(Routing3, PStr(MaxAmount)),
               NewEntry(Routing1, PStr(<<"7", "5">>)))
    /\ rec = <<>>
    /\ err = "ok"
    /\ out = NoOut
    /\ calls = 0

NextBulk ==
    \/ \E b \in BatchIds : AddEntry(b, BulkSpare)
    \/ \E b \in BatchIds : AddBatch(b)
    \/ \E b \in BatchIds, n \in DirectBatchNumbers : BatchFinalize(b, n)
    \/ Finalize

SpecBulk == InitBulk /\ [][NextBulk]_vars

-----------------------------------------------------------------------------
(* SpecEntry: two batches and two entries; the caller writes fields of the *)
(* entries before adding them to the batches                               *)

\* the setValue calls the caller makes on an entry: an untyped field emptied,
\* a routing number emptied or replaced, a padded field overfilled
EntryWrites ==
    {<<"odfiId", PStr(<<>>)>>, <<"rdfiId", PStr(<<>>)>>, <<"rdfiId", PStr(Routing3)>>,
     <<"name", PStr(LongText)>>}

InitEntry ==
    /\ file = NewFile
    /\ batches = [b \in BatchIds |-> NewBatch(MIXED_SERVICE)]
    /\ entries = [e \in EntryIds |->
                     NewEntry(IF e = 1 THEN Routing1 ELSE Routing2, PInt(BigOfNat(10000)))]
    /\ rec = <<>>
    /\ err = "ok"
    /\ out = NoOut
    /\ calls = 0

\* entries[e].setValue(fieldName, value)
EntrySetValue(e, fieldName, value) ==
    /\ calls < MaxSets
    /\ LET r == setValue(entries[e], fieldName, value)
       IN /\ entries' = [entries EXCEPT ![e] = r.rec]
          /\ err' = r.err
    /\ calls' = calls + 1
    /\ out' = NoOut
    /\ UNCHANGED <<file, batches, rec>>

NextEntry ==
    \/ \E e \in EntryIds, w \in EntryWrites : EntrySetValue(e, w[1], w[2])
    \/ \E b \in BatchIds, e \in EntryIds : AddEntry(b, e)

SpecEntry == InitEntry /\ [][NextEntry]_vars

-----------------------------------------------------------------------------
(* Arithmetic of the properties, kept apart from the arithmetic of the     *)
(* model: a number is read off its text in two limbs of five digits        *)

RECURSIVE NatSum(_, _, _)
\* f[lo] + ... + f[hi]
NatSum(f, lo, hi) ==
    IF lo > hi THEN 0
    ELSE IF lo = hi THEN f[lo]
    ELSE NatSum(f, lo, (lo + hi) \div 2) + NatSum(f, ((lo + hi) \div 2) + 1, hi)

\* the number a text of at most nine digits shows
TextVal(s) == NatSum([i \in 1..Len(s) |-> DigitVal(s[i]) * (10 ^ (Len(s) - i))], 1, Len(s))

\* n as width digits, zero-padded, for n < 10^width
NumText(n, width) == [i \in 1..width |-> Digits[((n \div (10 ^ (width - i))) % 10) + 1]]

\* text, zero-padded on the left to width characters
ZeroPadded(text, width) ==
    IF Len(text) >= width THEN text ELSE Rep("0", width - Len(text)) \o text

\* the digits of s before its last five, and its last five, as numbers
HighLimb(s) == TextVal(SubSeq(s, 1, Len(s) - 5))

LowLimb(s) == TextVal(SubSeq(s, Len(s) - 4, Len(s)))

\* the sum of the numbers shown by the texts, as two limbs
LimbSum(texts) ==
    LET High(low) == [hi |-> NatSum([i \in 1..Len(texts) |-> HighLimb(texts[i])], 1, Len(texts))
                                 + (low \div 100000),
                      lo |-> low % 100000]
    IN High(NatSum([i \in 1..Len(texts) |-> LowLimb(texts[i])], 1, Len(texts)))

\* the sum of numbers in two limbs
LimbTotal(ts) ==
    LET High(low) == [hi |-> NatSum([i \in 1..Len(ts) |-> ts[i].hi], 1, Len(ts))
                                 + (low \div 100000),
                      lo |-> low % 100000]
    IN High(NatSum([i \in 1..Len(ts) |-> ts[i].lo], 1, Len(ts)))

\* the decimal text of a number in two limbs
LimbText(t) == IF t.hi = 0 THEN NatToStr(t.lo) ELSE NatToStr(t.hi) \o NumText(t.lo, 5)

\* the ten digits of a number in two limbs, taken mod 10^10
LimbMod10Text(t) == NumText(t.hi % 100000, 5) \o NumText(t.lo, 5)

-----------------------------------------------------------------------------
(* Properties of a single record (SpecRecord)                              *)

\* C1: once a record of any class is locked, every later setValue call
\* fails with the record-locked error, and getValue of every field of the
\* layout succeeds and returns the text it returned before the call.
C1_LockedRecordRejectsWrites ==
    [][rec.locked =>
          /\ (calls' # calls => err' = "RecordLocked")
          /\ \A f \in DOMAIN FieldsOf(rec.kind) :
                /\ getValueErr(rec', f) = "ok"
                /\ getValue(rec', f) = getValue(rec, f)]_vars

\* C1: a locked record, written before the lock, on which a setValue call
\* has just failed
C1_Witness ==
    /\ rec.locked
    /\ err = "RecordLocked"
    /\ calls >= 2
    /\ rec.data # NachaRecord(rec.kind).data

\* 3*d1 + 7*d2 + 1*d3 + 3*d4 + 7*d5 + 1*d6 + 3*d7 + 7*d8 of eight digits
WeightedSum(rdfiId) ==
    (3 * DigitVal(rdfiId[1])) + (7 * DigitVal(rdfiId[2])) + (1 * DigitVal(rdfiId[3]))
    + (3 * DigitVal(rdfiId[4])) + (7 * DigitVal(rdfiId[5])) + (1 * DigitVal(rdfiId[6]))
    + (3 * DigitVal(rdfiId[7])) + (7 * DigitVal(rdfiId[8]))

\* C2: setting an entry's rdfiId to an 8-digit routing number stores the
\* check digit (10 - (sum mod 10)) mod 10, sum being the weighted digit sum;
\* so the stored digit is 0 when sum mod 10 = 0.
C2_CheckDigit ==
    [][\A v \in {Routing1, Routing2} :
          (rec.kind = "Entry" /\ SetValue("rdfiId", PStr(v)) /\ err' = "ok")
          => getValue(rec', "checkDigit")
                = <<Digits[((10 - (WeightedSum(v) % 10)) % 10) + 1]>>]_vars

\* C2: an entry whose routing number has a weighted sum that is a multiple
\* of ten, holding check digit 1
C2_Witness ==
    /\ rec.kind = "Entry"
    /\ getValue(rec, "rdfiId") = Routing2
    /\ WeightedSum(Routing2) % 10 = 0
    /\ getValue(rec, "checkDigit") = <<"1">>

\* C3: in every reachable state the record's buffer has exactly 94 bytes,
\* whatever field was set and however long the value was.
C3_BufferWidth == Len(rec.data) = RecordWidth

\* C3: a record whose buffer has lost a byte
C3_Witness == Len(rec.data) = RecordWidth - 1

-----------------------------------------------------------------------------
(* Properties of files and batches (Spec)                                  *)

FillerLines(text) ==
    IF text = <<>> THEN 0
    ELSE (Len(text) + Len(NACHA_EOL)) \div (RecordWidth + Len(NACHA_EOL))

\* 2 + 2 x batches + entries of the file
RecordCount ==
    2 + (2 * Len(file.batches))
    + NatSum([i \in 1..Len(file.batches) |-> Len(batches[file.batches[i]].entries)],
             1, Len(file.batches))

\* C5: after File.finalize, blockCount is ceil(recordCount / 10); there are
\* no filler lines when recordCount mod 10 = 0 and 10 - (recordCount mod 10)
\* otherwise, each of 94 '9' characters; so recordCount + filler lines is
\* blockCount x 10 (one batch without entries: 4 records, 1 block, 6 lines).
C5_BlockCount ==
    file.finalized =>
        LET Holds(rc, bf, k) ==
                /\ getValue(file.fileControl, "blockCount") = NumText((rc + bf - 1) \div bf, 6)
                /\ k = (IF rc % bf = 0 THEN 0 ELSE bf - (rc % bf))
                /\ file.nineFill = Join(NACHA_EOL, [i \in 1..k |-> Rep("9", RecordWidth)])
                /\ rc + k = ((rc + bf - 1) \div bf) * bf
                /\ (rc = 4 => /\ getValue(file.fileControl, "blockCount") = NumText(1, 6)
                              /\ k = 6)
        IN Holds(RecordCount, TextVal(getValue(file.fileHeader, "blockingFactor")),
                 FillerLines(file.nineFill))

\* C5: a finalized file whose record count is a multiple of the blocking
\* factor
C5_Witness ==
    /\ file.finalized
    /\ Len(file.batches) > 0
    /\ RecordCount % 10 = 0
    /\ file.nineFill = <<>>

\* C8: addEntry on a finalized batch fails with the batch-finalized error
\* and addBatch on a finalized file with the file-finalized error; the
\* failed call leaves the file, every batch and every entry, the argument
\* included, as they were.
C8_NoAddAfterFinalize ==
    [][/\ \A b \in BatchIds, e \in DOMAIN entries :
             (batches[b].finalized /\ AddEntry(b, e))
             => (err' = "BatchFinalized" /\ UNCHANGED <<file, batches, entries>>)
       /\ \A b \in BatchIds :
             (file.finalized /\ AddBatch(b))
             => (err' = "FileFinalized" /\ UNCHANGED <<file, batches, entries>>)]_vars

\* C8: addEntry has just failed on a finalized batch that holds an entry
C8_Witness ==
    /\ err = "BatchFinalized"
    /\ \E b \in BatchIds : batches[b].finalized /\ batches[b].entries # <<>>

\* C9: a call of addEntry or addBatch that ends in an error, of whatever
\* kind, leaves the file, every batch and every entry as they were before
\* the call.
C9_FailedCallChangesNothing ==
    [][((\/ \E b \in BatchIds, e \in DOMAIN entries : AddEntry(b, e)
         \/ \E b \in BatchIds : AddBatch(b))
        /\ err' # "ok")
       => UNCHANGED <<file, batches, entries>>]_vars

\* C9: addBatch has failed on the total of the amounts, and the batch it was
\* given, still not finalized and in no file, carries the batch number 1
C9_Witness ==
    /\ err = "ValueError"
    /\ file.batches = <<>>
    /\ \E b \in BatchIds :
          /\ ~batches[b].finalized
          /\ getValue(batches[b].batchHeader, "batchNumber") = NumText(1, 7)
          /\ getValue(batches[b].batchControl, "entryCount")
                = NumText(Len(batches[b].entries), 6)

\* C10: the batch at position i of the file's batch list carries the batch
\* number i, zero-padded, in its header and in its control record.
C10_BatchNumbers ==
    \A i \in 1..Len(file.batches) :
        /\ getValue(batches[file.batches[i]].batchHeader, "batchNumber") = NumText(i, 7)
        /\ getValue(batches[file.batches[i]].batchControl, "batchNumber") = NumText(i, 7)

\* C10: one batch added twice, both positions carrying the batch number 1
C10_Witness ==
    /\ Len(file.batches) = 2
    /\ file.batches[1] = file.batches[2]
    /\ getValue(batches[file.batches[2]].batchHeader, "batchNumber") = NumText(1, 7)

-----------------------------------------------------------------------------
(* Properties of the totals (SpecBulk)                                     *)

\* the texts of one field of the entries of batch b
EntryTexts(b, fieldName) ==
    [i \in 1..Len(batches[b].entries) |-> getValue(entries[batches[b].entries[i]], fieldName)]

FileAmount(codes) ==
    LimbText(LimbTotal([i \in 1..Len(file.batches) |->
        IF getValue(batches[file.batches[i]].batchHeader, "serviceCode") \in codes
        THEN LimbSum(EntryTexts(file.batches[i], "amount"))
        ELSE [hi |-> 0, lo |-> 0]]))

\* C7: after File.finalize, creditAmount is the sum of the amounts of all
\* entries in credits-only and mixed batches and debitAmount that of all
\* entries in debits-only and mixed batches, each zero-padded to 12
\* characters.
C7_FileAmounts ==
    file.finalized =>
        /\ getValue(file.fileControl, "creditAmount")
              = ZeroPadded(FileAmount({CREDITS_ONLY_SERVICE, MIXED_SERVICE}), 12)
        /\ getValue(file.fileControl, "debitAmount")
              = ZeroPadded(FileAmount({DEBITS_ONLY_SERVICE, MIXED_SERVICE}), 12)

\* C7: a finalized file holding the credits-only batch whose amounts add up
\* to 10^12 or more
C7_Witness ==
    /\ file.finalized
    /\ \E i \in 1..Len(file.batches) :
          /\ getValue(batches[file.batches[i]].batchHeader, "serviceCode")
                = CREDITS_ONLY_SERVICE
          /\ Len(LimbText(LimbSum(EntryTexts(file.batches[i], "amount")))) > 12

-----------------------------------------------------------------------------
(* Properties of the entries of a batch (SpecEntry)                        *)

\* the places (batch, position) at which the batches hold entries
Places == {p \in BatchIds \X (1..Cardinality(DOMAIN entries)) :
              p[2] <= Len(batches[p[1]].entries)}

\* C11: the entry at position k of a batch is locked, has a buffer of 94
\* bytes whose bytes 80-87 are the batch header's odfiId and whose bytes
\* 88-94 are k in 7 digits; no entry is at two positions or in two batches.
C11_StampedEntries ==
    /\ \A p \in Places :
          LET Stamped(e, odfiId, k) ==
                  /\ e.locked
                  /\ Len(e.data) = RecordWidth
                  /\ SubSeq(e.data, 80, 87) = odfiId
                  /\ SubSeq(e.data, 88, 94) = NumText(k, 7)
          IN Stamped(entries[batches[p[1]].entries[p[2]]],
                     getValue(batches[p[1]].batchHeader, "odfiId"), p[2])
    /\ \A p, q \in Places :
          batches[p[1]].entries[p[2]] = batches[q[1]].entries[q[2]] => p = q

\* C11: an entry that was added to a batch and is locked, with a buffer that
\* is short of 94 bytes
C11_Witness ==
    \E p \in Places :
        /\ entries[batches[p[1]].entries[p[2]]].locked
        /\ err = "ok"
        /\ Len(entries[batches[p[1]].entries[p[2]]].data) < RecordWidth

=============================================================================
